---- MODULE Spec2Model ----
(***************************************************************************)
(* ectoenv: binding of environment variables to the fields of a struct     *)
(* (environment.go).  BindEnv walks the fields of a struct by reflection,  *)
(* resolves each tagged field from the environment or its default, parses  *)
(* the text by the field's kind and writes it; BindEnvWithAutoRefresh adds *)
(* a goroutine that re-runs BindEnv after every interval.                  *)
(*                                                                         *)
(* Texts (Go strings) are sequences of one-character strings, so that      *)
(* strings.Split, strconv.Atoi, strconv.ParseBool and strconv.ParseFloat   *)
(* are computed character by character.                                    *)
(***************************************************************************)
EXTENDS Integers, Sequences, FiniteSets, TLC

VARIABLES
    env,                    \* the process environment: variable name -> text ("" when unset)
    config,                 \* the caller's Config record (the pointee of the valid target)
    intValue,               \* the caller's int (the pointee of the pointer-to-int target)
    AUTO_REFRESH_INTERVAL,  \* the package variable, in seconds
    tasks,                  \* the goroutines started by refresh, in start order
    ret,                    \* the error last returned to the caller
    sink,                   \* what the refresh goroutines printed last (fmt.Printf)
    setenvs,                \* how many times the caller has changed the environment
    call                    \* the operation that produced this state

vars == <<env, config, intValue, AUTO_REFRESH_INTERVAL, tasks, ret, sink, setenvs, call>>

----------------------------------------------------------------------------
(* Bounds of the model *)

\* the caller changes the environment at most this many times
MaxSetenv == 2
\* at most this many refresh goroutines are started
MaxTasks == 1
\* the caller sets AUTO_REFRESH_INTERVAL to 1..MaxInterval seconds
MaxInterval == 1

\* var AUTO_REFRESH_INTERVAL = 60
DefaultInterval == 60

----------------------------------------------------------------------------
(* Texts *)

DigitChars == {"0", "1", "2", "3", "4", "5", "6", "7", "8", "9"}

DigitVal(c) ==
    CASE c = "0" -> 0 [] c = "1" -> 1 [] c = "2" -> 2 [] c = "3" -> 3
      [] c = "4" -> 4 [] c = "5" -> 5 [] c = "6" -> 6 [] c = "7" -> 7
      [] c = "8" -> 8 [] c = "9" -> 9

Tail2(s) == SubSeq(s, 2, Len(s))

AllDigits(s) == \A i \in 1..Len(s) : s[i] \in DigitChars

RECURSIVE DecimalValue(_)
\* the number a run of decimal digits denotes
DecimalValue(s) ==
    IF s = <<>> THEN 0
    ELSE 10 * DecimalValue(SubSeq(s, 1, Len(s) - 1)) + DigitVal(s[Len(s)])

RECURSIVE Split(_, _)
\* strings.Split(s, sep) for a one-character sep: the pieces between the
\* separators, in order; n separators give n + 1 pieces, empty ones included
Split(s, sep) ==
    IF \A i \in 1..Len(s) : s[i] # sep THEN <<s>>
    ELSE LET k == CHOOSE i \in 1..Len(s) :
                     s[i] = sep /\ \A j \in 1..(i - 1) : s[j] # sep
         IN  <<SubSeq(s, 1, k - 1)>> \o Split(SubSeq(s, k + 1, Len(s)), sep)

----------------------------------------------------------------------------
(* strconv.  Each parser returns [ok, val]; ok = FALSE is strconv's       *)
(* *NumError (invalid syntax).  Texts of the model are shorter than 19     *)
(* characters, so Atoi's range error cannot arise.                         *)

\* strconv.Atoi: an optional sign, then one or more decimal digits
Atoi(s) ==
    LET signed == s # <<>> /\ s[1] \in {"+", "-"}
        body   == IF signed THEN Tail2(s) ELSE s
    IN  IF body = <<>> \/ ~AllDigits(body) THEN [ok |-> FALSE, val |-> 0]
        ELSE [ok |-> TRUE,
              val |-> IF signed /\ s[1] = "-" THEN 0 - DecimalValue(body)
                      ELSE DecimalValue(body)]

TrueTexts ==
    {<<"1">>, <<"t">>, <<"T">>, <<"T", "R", "U", "E">>, <<"t", "r", "u", "e">>,
     <<"T", "r", "u", "e">>}

FalseTexts ==
    {<<"0">>, <<"f">>, <<"F">>, <<"F", "A", "L", "S", "E">>,
     <<"f", "a", "l", "s", "e">>, <<"F", "a", "l", "s", "e">>}

\* strconv.ParseBool: exactly the twelve literals
ParseBool(s) ==
    IF s \in TrueTexts THEN [ok |-> TRUE, val |-> TRUE]
    ELSE IF s \in FalseTexts THEN [ok |-> TRUE, val |-> FALSE]
    ELSE [ok |-> FALSE, val |-> FALSE]

RECURSIVE StripZeros(_)
StripZeros(s) ==
    IF s # <<>> /\ s[Len(s)] = "0" THEN StripZeros(SubSeq(s, 1, Len(s) - 1)) ELSE s

\* the float64 zero value
FloatZero == [num |-> 0, frac |-> 0]

\* strconv.ParseFloat(s, 64) on decimal texts without an exponent: an optional
\* sign, digits with at most one ".", at least one digit.  A float is kept as
\* num / 10^frac with no trailing zero in the fraction.  (The texts of the
\* model hold none of the letters of ParseFloat's other forms: exponents,
\* hexadecimal, inf, nan.)
ParseFloat(s) ==
    LET signed == s # <<>> /\ s[1] \in {"+", "-"}
        body   == IF signed THEN Tail2(s) ELSE s
        parts  == Split(body, ".")
        whole  == parts[1]
        fracs  == IF Len(parts) = 2 THEN StripZeros(parts[2]) ELSE <<>>
        mag    == DecimalValue(whole \o fracs)
    IN  IF \/ Len(parts) > 2
           \/ \E i \in 1..Len(parts) : ~AllDigits(parts[i])
           \/ \A i \in 1..Len(parts) : parts[i] = <<>>
        THEN [ok |-> FALSE, val |-> FloatZero]
        ELSE [ok |-> TRUE,
              val |-> [num  |-> IF signed /\ s[1] = "-" THEN 0 - mag ELSE mag,
                       frac |-> IF mag = 0 THEN 0 ELSE Len(fracs)]]

----------------------------------------------------------------------------
(* Errors.  One shape for every error value: kind "nil" is Go's nil error, *)
(* "invalid" is validateInput's errors.New, "parse" is the fmt.Errorf of a *)
(* set*Field or set*Slice function.  wrap lists the %s of every "unable to *)
(* set value for field %s: %w" put around it by setFieldValues, outermost  *)
(* first.                                                                  *)

NoError ==
    [kind |-> "nil", msg |-> "", field |-> "", text |-> <<>>, target |-> "", wrap |-> <<>>]

InvalidError(m) ==
    [kind |-> "invalid", msg |-> m, field |-> "", text |-> <<>>, target |-> "", wrap |-> <<>>]

\* fmt.Errorf("unable to set value for field %s. failed to parse %s as <target>: %w",
\*            field.Type().Name(), str, err)
ParseError(typeName, str, tgt) ==
    [kind |-> "parse", msg |-> "unable to set value for field %s. failed to parse %s as %s",
     field |-> typeName, text |-> str, target |-> tgt, wrap |-> <<>>]

\* fmt.Errorf("unable to set value for field %s: %w", field.Type().Name(), err)
WrapError(typeName, err) == [err EXCEPT !.wrap = <<typeName>> \o @]

----------------------------------------------------------------------------
(* The caller's types, as reflect sees them.  A type is [kind, name] (name *)
(* is reflect.Type.Name(): "" for a slice or an anonymous struct), a slice *)
(* has elem, a struct has fields; a struct field is [name, exported, type, *)
(* env, def] with env and def the values of its env and env-default tags   *)
(* ("" and the empty text when the tag is absent).                         *)

StringType == [kind |-> "string", name |-> "string"]
IntType == [kind |-> "int", name |-> "int"]
UintType == [kind |-> "uint", name |-> "uint"]
BoolType == [kind |-> "bool", name |-> "bool"]
Float64Type == [kind |-> "float64", name |-> "float64"]
SliceOf(t) == [kind |-> "slice", name |-> "", elem |-> t]

StructField(n, x, t, e, d) ==
    [name |-> n, exported |-> x, type |-> t, env |-> e, def |-> d]

NoTag == <<>>

\* SubStruct struct { ... }: an anonymous struct without an env tag of its own
SubStructType ==
    [kind |-> "struct", name |-> "",
     fields |-> << StructField("SubFloatValue", TRUE, Float64Type, "SUB_FLOAT_VALUE",
                               <<"2", ".", "5">>) >>]

\* type Config struct, after the Config of environment_test.go: every kind
\* setFieldValue handles, a nested struct, and the fields setFieldValues
\* passes over (unexported, untagged, of a kind without a case)
ConfigType ==
    [kind |-> "struct", name |-> "Config",
     fields |-> << StructField("StringValue", TRUE, StringType, "STRING_VALUE", <<"d">>),
                   StructField("hidden", FALSE, StringType, "STRING_VALUE", <<"d">>),
                   StructField("IntValue", TRUE, IntType, "INT_VALUE", NoTag),
                   StructField("UintValue", TRUE, UintType, "INT_VALUE", <<"7">>),
                   StructField("Untagged", TRUE, IntType, "", NoTag),
                   StructField("SubStruct", TRUE, SubStructType, "", NoTag),
                   StructField("IntSliceValue", TRUE, SliceOf(IntType), "INT_SLICE_VALUE", NoTag),
                   StructField("StringSliceValue", TRUE, SliceOf(StringType),
                               "STRING_SLICE_VALUE", NoTag),
                   StructField("BoolSliceValue", TRUE, SliceOf(BoolType),
                               "BOOL_SLICE_VALUE", NoTag) >>]

\* &Config{}: every field at its zero value (a nil slice is the empty sequence)
ZeroConfig ==
    [StringValue |-> <<>>, hidden |-> <<>>, IntValue |-> 0, UintValue |-> 0, Untagged |-> 0,
     SubStruct |-> [SubFloatValue |-> FloatZero],
     IntSliceValue |-> <<>>, StringSliceValue |-> <<>>, BoolSliceValue |-> <<>>]

\* the environment variables the tags name
EnvNames ==
    {"STRING_VALUE", "INT_VALUE", "SUB_FLOAT_VALUE",
     "INT_SLICE_VALUE", "STRING_SLICE_VALUE", "BOOL_SLICE_VALUE"}

\* the texts the caller puts in the environment; the empty text unsets
EnvTexts ==
    {<<>>, <<"1">>, <<"z">>, <<"1", ",", "0">>, <<"0", ",">>}

----------------------------------------------------------------------------
(* The interface{} values passed to BindEnv: [kind, isNil, type, val],     *)
(* with type and val those of the pointee when kind is "ptr".              *)

NilInterface == [kind |-> "invalid", isNil |-> FALSE, type |-> IntType, val |-> 0]
NilPointer == [kind |-> "ptr", isNil |-> TRUE, type |-> ConfigType, val |-> ZeroConfig]
StructValue(t, x) == [kind |-> "struct", isNil |-> FALSE, type |-> t, val |-> x]
PointerTo(t, x) == [kind |-> "ptr", isNil |-> FALSE, type |-> t, val |-> x]

----------------------------------------------------------------------------
(* The Binder.  A Go function that writes through a reflect.Value and      *)
(* returns an error is an operator from the value before to [val, err]:    *)
(* val is the value after, err the error returned.                         *)

\* os.Getenv
Getenv(e, key) == e[key]

\* getEnvValue with the default taking precedence over the variable
getEnvValue_DefaultFirst(e, field, envTag) ==
    IF field.def # <<>> THEN field.def ELSE Getenv(e, envTag)

\* func getEnvValue(field reflect.StructField, envTag string) string
getEnvValue(e, field, envTag) ==
    LET envValue == Getenv(e, envTag)
    IN  IF envValue = <<>>
        THEN (IF field.def # <<>> THEN field.def ELSE envValue)
        ELSE envValue

\* func setIntField(field reflect.Value, envValue string) error
setIntField(ft, field, envValue) ==
    LET r == Atoi(envValue)
    IN  IF ~r.ok THEN [val |-> field, err |-> ParseError(ft.name, envValue, "int")]
        ELSE [val |-> r.val, err |-> NoError]

\* func setBoolField(field reflect.Value, envValue string) error
setBoolField(ft, field, envValue) ==
    LET r == ParseBool(envValue)
    IN  IF ~r.ok THEN [val |-> field, err |-> ParseError(ft.name, envValue, "bool")]
        ELSE [val |-> r.val, err |-> NoError]

\* func setFloat64Field(field reflect.Value, envValue string) error
setFloat64Field(ft, field, envValue) ==
    LET r == ParseFloat(envValue)
    IN  IF ~r.ok THEN [val |-> field, err |-> ParseError(ft.name, envValue, "float64")]
        ELSE [val |-> r.val, err |-> NoError]

\* the first element of split that the parser refuses, 0 when all parse
FirstBad(split, Parse(_)) ==
    IF \A i \in 1..Len(split) : Parse(split[i]).ok THEN 0
    ELSE CHOOSE i \in 1..Len(split) :
             ~Parse(split[i]).ok /\ \A j \in 1..(i - 1) : Parse(split[j]).ok

\* setBoolSlice writing the elements converted so far when one fails
setBoolSlice_Partial(ft, field, split) ==
    IF FirstBad(split, ParseBool) # 0
    THEN [val |-> [i \in 1..(FirstBad(split, ParseBool) - 1) |-> ParseBool(split[i]).val],
          err |-> ParseError(ft.name, split[FirstBad(split, ParseBool)], "bool")]
    ELSE [val |-> [i \in 1..Len(split) |-> ParseBool(split[i]).val], err |-> NoError]

\* func setBoolSlice(field reflect.Value, split []string) error: the slice is
\* built aside and field.Set runs after the loop, so an error leaves the field
setBoolSlice(ft, field, split) ==
    LET bad == FirstBad(split, ParseBool)
    IN  IF bad # 0 THEN [val |-> field, err |-> ParseError(ft.name, split[bad], "bool")]
        ELSE [val |-> [i \in 1..Len(split) |-> ParseBool(split[i]).val], err |-> NoError]

\* func setFloat64Slice(field reflect.Value, split []string) error
setFloat64Slice(ft, field, split) ==
    LET bad == FirstBad(split, ParseFloat)
    IN  IF bad # 0 THEN [val |-> field, err |-> ParseError(ft.name, split[bad], "float64")]
        ELSE [val |-> [i \in 1..Len(split) |-> ParseFloat(split[i]).val], err |-> NoError]

\* setIntSlice appending to the slice the field holds
setIntSlice_Append(ft, field, split) ==
    IF FirstBad(split, Atoi) # 0
    THEN [val |-> field, err |-> ParseError(ft.name, split[FirstBad(split, Atoi)], "int")]
    ELSE [val |-> field \o [i \in 1..Len(split) |-> Atoi(split[i]).val], err |-> NoError]

\* func setIntSlice(field reflect.Value, split []string) error
setIntSlice(ft, field, split) ==
    LET bad == FirstBad(split, Atoi)
    IN  IF bad # 0 THEN [val |-> field, err |-> ParseError(ft.name, split[bad], "int")]
        ELSE [val |-> [i \in 1..Len(split) |-> Atoi(split[i]).val], err |-> NoError]

\* func setSliceField(field reflect.Value, envValue string) error
setSliceField(ft, field, envValue) ==
    LET split == Split(envValue, ",")
        k     == ft.elem.kind
    IN  CASE k = "string"  -> [val |-> split, err |-> NoError]
          [] k = "bool"    -> setBoolSlice(ft, field, split)
          [] k = "float64" -> setFloat64Slice(ft, field, split)
          [] k = "int"     -> setIntSlice(ft, field, split)
          [] OTHER         -> [val |-> field, err |-> NoError]

\* func setFieldValue(field reflect.Value, envValue string) error
setFieldValue(ft, field, envValue) ==
    CASE ft.kind = "string"  -> [val |-> envValue, err |-> NoError]
      [] ft.kind = "int"     -> setIntField(ft, field, envValue)
      [] ft.kind = "bool"    -> setBoolField(ft, field, envValue)
      [] ft.kind = "float64" -> setFloat64Field(ft, field, envValue)
      [] ft.kind = "slice"   -> setSliceField(ft, field, envValue)
      [] OTHER               -> [val |-> field, err |-> NoError]

\* func validateInput(v interface{}) (reflect.Value, error): NoError when v is
\* a non-nil pointer to a struct
validateInput(v) ==
    IF v.kind # "ptr" \/ v.isNil
    THEN InvalidError("provided value must be a non-nil pointer to a struct")
    ELSE IF v.type.kind # "struct"
    THEN InvalidError("provided value must be a pointer to a struct")
    ELSE NoError

RECURSIVE BindEnv(_, _)
RECURSIVE setFieldValues(_, _, _, _)

\* setFieldStep looking for the env tag before it looks for a nested struct
setFieldStep_TagFirst(e, rt, rv, i) ==
    IF ~rt.fields[i].exported \/ rt.fields[i].env = ""
    THEN [val |-> rv, err |-> NoError, done |-> FALSE]
    ELSE IF rt.fields[i].type.kind = "struct"
    THEN [val |-> [rv EXCEPT ![rt.fields[i].name] =
                      BindEnv(e, PointerTo(rt.fields[i].type, rv[rt.fields[i].name])).val],
          err |-> NoError, done |-> FALSE]
    ELSE IF getEnvValue(e, rt.fields[i], rt.fields[i].env) = <<>>
    THEN [val |-> rv, err |-> NoError, done |-> FALSE]
    ELSE LET r == setFieldValue(rt.fields[i].type, rv[rt.fields[i].name],
                                getEnvValue(e, rt.fields[i], rt.fields[i].env))
         IN  [val |-> [rv EXCEPT ![rt.fields[i].name] = r.val], err |-> r.err,
              done |-> r.err # NoError]

\* one iteration of the loop of setFieldValues, on field i of the struct rv
\* of type rt: [val, err, done], val the struct after it, done when the loop
\* returns here
setFieldStep(e, rt, rv, i) ==
    LET sf    == rt.fields[i]
        field == rv[sf.name]
    IN  IF ~sf.exported
        THEN [val |-> rv, err |-> NoError, done |-> FALSE]
        ELSE IF sf.type.kind = "struct"
        THEN LET r == BindEnv(e, PointerTo(sf.type, field))
             IN  IF r.err # NoError
                 THEN [val |-> [rv EXCEPT ![sf.name] = r.val],
                       err |-> WrapError(sf.type.name, r.err), done |-> TRUE]
                 ELSE [val |-> [rv EXCEPT ![sf.name] = r.val], err |-> NoError,
                       done |-> FALSE]
        ELSE IF sf.env = ""
        THEN [val |-> rv, err |-> NoError, done |-> FALSE]
        ELSE LET envValue == getEnvValue(e, sf, sf.env)
             IN  IF envValue = <<>>
                 THEN [val |-> rv, err |-> NoError, done |-> FALSE]
                 ELSE LET r == setFieldValue(sf.type, field, envValue)
                      IN  [val |-> [rv EXCEPT ![sf.name] = r.val], err |-> r.err,
                           done |-> r.err # NoError]

\* nextField going on to the later fields after an error (continue for return)
nextField_ContinueOnError(e, rt, i, s) ==
    IF s.done
    THEN [val |-> setFieldValues(e, rt, s.val, i + 1).val, err |-> s.err]
    ELSE setFieldValues(e, rt, s.val, i + 1)

\* the end of one iteration of the loop: return s.err, or go on with field i + 1
nextField(e, rt, i, s) ==
    IF s.done THEN [val |-> s.val, err |-> s.err]
    ELSE setFieldValues(e, rt, s.val, i + 1)

\* func setFieldValues(rv reflect.Value) error, from field i on
setFieldValues(e, rt, rv, i) ==
    IF i > Len(rt.fields) THEN [val |-> rv, err |-> NoError]
    ELSE nextField(e, rt, i, setFieldStep(e, rt, rv, i))

\* func BindEnv(v interface{}) error, in the environment e
BindEnv(e, v) ==
    LET err == validateInput(v)
    IN  IF err # NoError THEN [val |-> v.val, err |-> err]
        ELSE setFieldValues(e, v.type, v.val, 1)

----------------------------------------------------------------------------
(* The Refresher *)

\* func refresh(interval int, v interface{}): go func() { for { ... } }() adds
\* a goroutine that first sleeps for interval seconds; v is kept by the name
\* of the caller's argument.  interval is the goroutine's copy of the
\* parameter, wait the time left on its timer, slept the time that passed
\* since it began to wait, running the calls of BindEnv it has in progress
refresh(ts, interval, target) ==
    Append(ts, [v |-> target, interval |-> interval, wait |-> interval, pc |-> "sleep",
                slept |-> 0, running |-> 0])

\* BindEnvWithAutoRefresh calling refresh before it looks at BindEnv's error
BindEnvWithAutoRefresh_RefreshFirst(e, v, target, interval, ts) ==
    [val |-> BindEnv(e, v).val, err |-> BindEnv(e, v).err,
     tasks |-> refresh(ts, interval, target)]

\* BindEnvWithAutoRefresh starting one goroutine for the record and one more
BindEnvWithAutoRefresh_Twice(e, v, target, interval, ts) ==
    IF BindEnv(e, v).err # NoError
    THEN [val |-> BindEnv(e, v).val, err |-> BindEnv(e, v).err, tasks |-> ts]
    ELSE [val |-> BindEnv(e, v).val, err |-> NoError,
          tasks |-> refresh(refresh(ts, interval, target), interval, target)]

\* func BindEnvWithAutoRefresh(v interface{}) error: [val, err, tasks]
BindEnvWithAutoRefresh(e, v, target, interval, ts) ==
    LET r == BindEnv(e, v)
    IN  IF r.err # NoError THEN [val |-> r.val, err |-> r.err, tasks |-> ts]
        ELSE [val |-> r.val, err |-> NoError, tasks |-> refresh(ts, interval, target)]

----------------------------------------------------------------------------
(* The state machine: a caller that changes the environment and the        *)
(* interval and calls the two entry points, and the refresh goroutines.    *)

\* what the caller passes for v: nil, (*Config)(nil), config, &intValue, &config
Targets == {"nil", "nilptr", "value", "intptr", "ptr"}

Interface(target, c, n) ==
    CASE target = "nil"    -> NilInterface
      [] target = "nilptr" -> NilPointer
      [] target = "value"  -> StructValue(ConfigType, c)
      [] target = "intptr" -> PointerTo(IntType, n)
      [] target = "ptr"    -> PointerTo(ConfigType, c)

Op(name, target, task) == [op |-> name, target |-> target, task |-> task]

Init ==
    /\ env = [k \in EnvNames |-> <<>>]
    /\ config = ZeroConfig
    /\ intValue = 0
    /\ AUTO_REFRESH_INTERVAL = DefaultInterval
    /\ tasks = <<>>
    /\ ret = NoError
    /\ sink = NoError
    /\ setenvs = 0
    /\ call = Op("init", "", 0)

\* os.Setenv(key, text) by the caller (the empty text: os.Unsetenv)
Setenv(key, text) ==
    /\ setenvs < MaxSetenv
    /\ env[key] # text
    /\ env' = [env EXCEPT ![key] = text]
    /\ setenvs' = setenvs + 1
    /\ call' = Op("Setenv", "", 0)
    /\ UNCHANGED <<config, intValue, AUTO_REFRESH_INTERVAL, tasks, ret, sink>>

\* AUTO_REFRESH_INTERVAL = n by the caller
SetInterval(n) ==
    /\ AUTO_REFRESH_INTERVAL # n
    /\ AUTO_REFRESH_INTERVAL' = n
    /\ call' = Op("SetInterval", "", 0)
    /\ UNCHANGED <<env, config, intValue, tasks, ret, sink, setenvs>>

\* err := BindEnv(v) by the caller
CallBindEnv(target) ==
    LET r == BindEnv(env, Interface(target, config, intValue))
    IN  /\ config' = IF target = "ptr" THEN r.val ELSE config
        /\ intValue' = IF target = "intptr" THEN r.val ELSE intValue
        /\ ret' = r.err
        /\ call' = Op("BindEnv", target, 0)
        /\ UNCHANGED <<env, AUTO_REFRESH_INTERVAL, tasks, sink, setenvs>>

\* err := BindEnvWithAutoRefresh(v) by the caller
CallBindEnvWithAutoRefresh(target) ==
    LET r == BindEnvWithAutoRefresh(env, Interface(target, config, intValue), target,
                                    AUTO_REFRESH_INTERVAL, tasks)
    IN  /\ Len(tasks) < MaxTasks
        /\ config' = IF target = "ptr" THEN r.val ELSE config
        /\ intValue' = IF target = "intptr" THEN r.val ELSE intValue
        /\ ret' = r.err
        /\ tasks' = r.tasks
        /\ call' = Op("BindEnvWithAutoRefresh", target, 0)
        /\ UNCHANGED <<env, AUTO_REFRESH_INTERVAL, sink, setenvs>>

Sleeping(i) == tasks[i].pc = "sleep" /\ tasks[i].wait > 0

\* time passes up to the next expiry of a timer some goroutine sleeps on
Elapse ==
    /\ \E i \in 1..Len(tasks) : Sleeping(i)
    /\ LET d == CHOOSE d \in {tasks[i].wait : i \in {j \in 1..Len(tasks) : Sleeping(j)}} :
                    \A i \in 1..Len(tasks) : Sleeping(i) => d <= tasks[i].wait
       IN  tasks' = [i \in 1..Len(tasks) |->
                        IF Sleeping(i) THEN [tasks[i] EXCEPT !.wait = @ - d, !.slept = @ + d]
                        ELSE tasks[i]]
    /\ call' = Op("Elapse", "", 0)
    /\ UNCHANGED <<env, config, intValue, AUTO_REFRESH_INTERVAL, ret, sink, setenvs>>

\* the goroutine receiving from a timer that has not expired
TimerFire_NoWait(i) ==
    /\ tasks[i].pc = "sleep"
    /\ tasks' = [tasks EXCEPT ![i].pc = "bind", ![i].wait = 0, ![i].running = @ + 1]
    /\ call' = Op("TimerFire", "", i)
    /\ UNCHANGED <<env, config, intValue, AUTO_REFRESH_INTERVAL, ret, sink, setenvs>>

\* <-time.After(time.Duration(interval) * time.Second) returns in goroutine i,
\* which goes on to call BindEnv(v)
TimerFire(i) ==
    /\ tasks[i].pc = "sleep"
    /\ tasks[i].wait = 0
    /\ tasks' = [tasks EXCEPT ![i].pc = "bind", ![i].running = @ + 1]
    /\ call' = Op("TimerFire", "", i)
    /\ UNCHANGED <<env, config, intValue, AUTO_REFRESH_INTERVAL, ret, sink, setenvs>>

\* the goroutine without its for loop: one refresh, and it ends
Tick_Once(i) ==
    LET t == tasks[i]
        r == BindEnv(env, Interface(t.v, config, intValue))
    IN  /\ t.pc = "bind"
        /\ config' = IF t.v = "ptr" THEN r.val ELSE config
        /\ intValue' = IF t.v = "intptr" THEN r.val ELSE intValue
        /\ sink' = IF r.err # NoError THEN r.err ELSE sink
        /\ tasks' = [tasks EXCEPT ![i] = [t EXCEPT !.pc = "done", !.running = @ - 1]]
        /\ call' = Op("Tick", t.v, i)
        /\ UNCHANGED <<env, AUTO_REFRESH_INTERVAL, ret, setenvs>>

\* the goroutine returning the error of a failed refresh to nobody: it ends
Tick_StopOnError(i) ==
    LET t == tasks[i]
        r == BindEnv(env, Interface(t.v, config, intValue))
    IN  /\ t.pc = "bind"
        /\ config' = IF t.v = "ptr" THEN r.val ELSE config
        /\ intValue' = IF t.v = "intptr" THEN r.val ELSE intValue
        /\ sink' = IF r.err # NoError THEN r.err ELSE sink
        /\ tasks' = [tasks EXCEPT ![i] = IF r.err # NoError THEN [t EXCEPT !.pc = "done", !.running = @ - 1]
                                         ELSE [t EXCEPT !.pc = "sleep", !.wait = t.interval,
                                                   !.slept = 0, !.running = @ - 1]]
        /\ call' = Op("Tick", t.v, i)
        /\ UNCHANGED <<env, AUTO_REFRESH_INTERVAL, ret, setenvs>>

\* the goroutine sleeping for what AUTO_REFRESH_INTERVAL holds at each turn of
\* the loop
Tick_RereadInterval(i) ==
    LET t == tasks[i]
        r == BindEnv(env, Interface(t.v, config, intValue))
    IN  /\ t.pc = "bind"
        /\ config' = IF t.v = "ptr" THEN r.val ELSE config
        /\ intValue' = IF t.v = "intptr" THEN r.val ELSE intValue
        /\ sink' = IF r.err # NoError THEN r.err ELSE sink
        /\ tasks' = [tasks EXCEPT ![i] = [t EXCEPT !.pc = "sleep", !.wait = AUTO_REFRESH_INTERVAL,
                                                   !.slept = 0, !.running = @ - 1]]
        /\ call' = Op("Tick", t.v, i)
        /\ UNCHANGED <<env, AUTO_REFRESH_INTERVAL, ret, setenvs>>

\* goroutine i: if err := BindEnv(v); err != nil { fmt.Printf(...) }, and the
\* loop goes back to sleep for its interval
Tick(i) ==
    LET t == tasks[i]
        r == BindEnv(env, Interface(t.v, config, intValue))
    IN  /\ t.pc = "bind"
        /\ config' = IF t.v = "ptr" THEN r.val ELSE config
        /\ intValue' = IF t.v = "intptr" THEN r.val ELSE intValue
        /\ sink' = IF r.err # NoError THEN r.err ELSE sink
        /\ tasks' = [tasks EXCEPT ![i] = [t EXCEPT !.pc = "sleep", !.wait = t.interval,
                                                   !.slept = 0, !.running = @ - 1]]
        /\ call' = Op("Tick", t.v, i)
        /\ UNCHANGED <<env, AUTO_REFRESH_INTERVAL, ret, setenvs>>

Next ==
    \/ \E key \in EnvNames, text \in EnvTexts : Setenv(key, text)
    \/ \E n \in 1..MaxInterval : SetInterval(n)
    \/ \E target \in Targets : CallBindEnv(target)
    \/ \E target \in Targets : CallBindEnvWithAutoRefresh(target)
    \/ Elapse
    \/ \E i \in 1..Len(tasks) : TimerFire(i)
    \/ \E i \in 1..Len(tasks) : Tick(i)

Spec == Init /\ [][Next]_vars

\* a caller that only changes the environment and calls BindEnv
NextBind ==
    \/ \E key \in EnvNames, text \in EnvTexts : Setenv(key, text)
    \/ \E target \in Targets : CallBindEnv(target)

BindSpec == Init /\ [][NextBind]_vars

\* goroutine i is in its call of BindEnv: exactly when Tick(i) can happen
Binding(i) == i <= Len(tasks) /\ tasks[i].pc = "bind"

\* the Go scheduler runs every runnable goroutine and time does not stop: weak
\* fairness of each step of the goroutines.  That of Tick(i) is written out,
\* WF_vars(A) being []<>~ENABLED <<A>>_vars \/ []<><<A>>_vars, with Binding(i)
\* for ENABLED <<Tick(i)>>_vars
Fairness ==
    /\ WF_vars(Elapse)
    /\ \A i \in 1..MaxTasks : WF_vars(i <= Len(tasks) /\ TimerFire(i))
    /\ \A i \in 1..MaxTasks :
          []<>(~Binding(i)) \/ []<><<i <= Len(tasks) /\ Tick(i)>>_vars

\* a caller that changes the environment and calls BindEnvWithAutoRefresh, and
\* the goroutines it starts
NextRefresh ==
    \/ \E key \in EnvNames, text \in EnvTexts : Setenv(key, text)
    \/ \E target \in Targets : CallBindEnvWithAutoRefresh(target)
    \/ Elapse
    \/ \E i \in 1..Len(tasks) : TimerFire(i)
    \/ \E i \in 1..Len(tasks) : Tick(i)

LiveSpec == Init /\ [][NextRefresh]_vars /\ Fairness

----------------------------------------------------------------------------
(* What the claims speak of.  The fields a Bind of a Config converts are   *)
(* the writable fields of a convertible kind that carry a source-variable  *)
(* annotation, those of nested records included, in declaration order.     *)

Convertible == {"string", "int", "bool", "float64"}

Annotated(sf) ==
    /\ sf.exported
    /\ sf.env # ""
    /\ \/ sf.type.kind \in Convertible
       \/ sf.type.kind = "slice" /\ sf.type.elem.kind \in Convertible

RECURSIVE LeavesOf(_, _, _)
\* [path, name, type, env, def] of each such field of the record type rt
LeavesOf(rt, prefix, i) ==
    IF i > Len(rt.fields) THEN <<>>
    ELSE LET sf == rt.fields[i]
             here == IF sf.exported /\ sf.type.kind = "struct"
                       THEN LeavesOf(sf.type, Append(prefix, sf.name), 1)
                     ELSE IF Annotated(sf)
                       THEN << [path |-> Append(prefix, sf.name), name |-> sf.name,
                                type |-> sf.type, env |-> sf.env, def |-> sf.def] >>
                     ELSE <<>>
         IN  here \o LeavesOf(rt, prefix, i + 1)

Leaves == LeavesOf(ConfigType, <<>>, 1)

RECURSIVE FieldAt(_, _)
\* the value of the field of record c at path
FieldAt(c, path) ==
    IF Len(path) = 1 THEN c[path[1]] ELSE FieldAt(c[path[1]], Tail(path))

\* the text the claims say a field is bound from: the variable's value when
\* set and non-empty, else the default literal, else nothing (the empty text)
Resolved(e, leaf) == IF e[leaf.env] # <<>> THEN e[leaf.env] ELSE leaf.def

ScalarOk(kind, text) ==
    CASE kind = "string"  -> TRUE
      [] kind = "int"     -> Atoi(text).ok
      [] kind = "bool"    -> ParseBool(text).ok
      [] kind = "float64" -> ParseFloat(text).ok

ScalarValue(kind, text) ==
    CASE kind = "string"  -> text
      [] kind = "int"     -> Atoi(text).val
      [] kind = "bool"    -> ParseBool(text).val
      [] kind = "float64" -> ParseFloat(text).val

\* the pieces of a sequence field's text, the text itself for a scalar
Pieces(type, text) == IF type.kind = "slice" THEN Split(text, ",") ELSE <<text>>

ElemKind(type) == IF type.kind = "slice" THEN type.elem.kind ELSE type.kind

\* text converts to the kind of the field
Converts(type, text) ==
    \A i \in 1..Len(Pieces(type, text)) : ScalarOk(ElemKind(type), Pieces(type, text)[i])

\* the value text denotes for the field
Parsed(type, text) ==
    IF type.kind = "slice"
    THEN [i \in 1..Len(Split(text, ",")) |-> ScalarValue(type.elem.kind, Split(text, ",")[i])]
    ELSE ScalarValue(type.kind, text)

\* leaf k has a text and it does not convert
Fails(e, k) == Resolved(e, Leaves[k]) # <<>> /\ ~Converts(Leaves[k].type, Resolved(e, Leaves[k]))

\* the first field in declaration order whose text does not convert, 0 if none
FirstFailing(e) ==
    IF \A k \in 1..Len(Leaves) : ~Fails(e, k) THEN 0
    ELSE CHOOSE k \in 1..Len(Leaves) : Fails(e, k) /\ \A j \in 1..(k - 1) : ~Fails(e, j)

\* Bind gets as far as converting leaf k: no field before it fails
Reached(e, k) == FirstFailing(e) = 0 \/ k <= FirstFailing(e)

\* the step is a call of BindEnv or BindEnvWithAutoRefresh on &config
CallerBound == call'.op \in {"BindEnv", "BindEnvWithAutoRefresh"} /\ call'.target = "ptr"

----------------------------------------------------------------------------
\* C1: a Bind of the record takes each annotated field's text from the
\* environment variable when it is set and non-empty, otherwise from the
\* default literal, otherwise from nowhere: a field with a text that converts
\* holds the parsed text after the call, a field with no text holds what it
\* held before, and a call in which no text fails to convert returns no error.
C1_ResolutionOrder ==
    [][CallerBound =>
          /\ \A k \in 1..Len(Leaves) :
                LET leaf == Leaves[k]
                    text == Resolved(env, leaf)
                IN  /\ (Reached(env, k) /\ text # <<>> /\ Converts(leaf.type, text))
                         => FieldAt(config', leaf.path) = Parsed(leaf.type, text)
                    /\ text = <<>> => FieldAt(config', leaf.path) = FieldAt(config, leaf.path)
          /\ (\A k \in 1..Len(Leaves) :
                 Resolved(env, Leaves[k]) = <<>>
                 \/ Converts(Leaves[k].type, Resolved(env, Leaves[k])))
               => ret' = NoError]_vars

\* a successful BindEnv(&config) with one field bound from its variable
\* (STRING_VALUE = "z" over the default "d"), one from its default (2.5) and
\* one, without variable or default, left as it was
C1_Witness ==
    /\ call = Op("BindEnv", "ptr", 0)
    /\ ret = NoError
    /\ env["STRING_VALUE"] = <<"z">> /\ config.StringValue = <<"z">>
    /\ env["SUB_FLOAT_VALUE"] = <<>> /\ config.SubStruct.SubFloatValue = [num |-> 25, frac |-> 1]
    /\ env["INT_SLICE_VALUE"] = <<>> /\ config.IntSliceValue = <<>>
    /\ env["BOOL_SLICE_VALUE"] = <<"1", ",", "0">> /\ config.BoolSliceValue = <<TRUE, FALSE>>

----------------------------------------------------------------------------
\* C2: BindEnv and BindEnvWithAutoRefresh called with nil, a nil pointer, a
\* record by value or a pointer to a non-record return an invalid-target
\* error, write no field of the record (nor the non-record pointed to) and
\* start no background task.
C2_InvalidTarget ==
    [][(/\ call'.op \in {"BindEnv", "BindEnvWithAutoRefresh"}
        /\ call'.target \in {"nil", "nilptr", "value", "intptr"})
          => /\ ret'.kind = "invalid"
             /\ config' = config
             /\ intValue' = intValue
             /\ tasks' = tasks]_vars

\* BindEnvWithAutoRefresh(config), by value, has returned the error while the
\* environment holds a value that a Bind of &config would have written
C2_Witness ==
    /\ call = Op("BindEnvWithAutoRefresh", "value", 0)
    /\ ret.kind = "invalid"
    /\ env["INT_VALUE"] = <<"1">>
    /\ config.IntValue = 0
    /\ tasks = <<>>

\* the fields of Config that no Bind converts: unexported, untagged or of a
\* kind without a conversion
Passed ==
    {ConfigType.fields[i].name : i \in {j \in 1..Len(ConfigType.fields) :
        /\ ~Annotated(ConfigType.fields[j])
        /\ ~(ConfigType.fields[j].exported /\ ConfigType.fields[j].type.kind = "struct")}}

\* C3: when the text of some field fails to convert, the Bind returns an
\* error; every annotated field before the failing one in declaration order
\* (nested ones included) holds what this call wrote (its parsed text, or its
\* old value when it has no text), and the failing field and every field after
\* it, in the failing record and in the enclosing one, hold what they held
\* before the call.
C3_AbortAtFirstError ==
    [][(CallerBound /\ FirstFailing(env) # 0)
          => /\ ret' # NoError
             /\ \A k \in 1..Len(Leaves) :
                   LET leaf == Leaves[k]
                       text == Resolved(env, leaf)
                   IN  IF k < FirstFailing(env) /\ text # <<>>
                       THEN FieldAt(config', leaf.path) = Parsed(leaf.type, text)
                       ELSE FieldAt(config', leaf.path) = FieldAt(config, leaf.path)
             /\ \A name \in Passed : config'[name] = config[name]]_vars

\* BindEnv(&config) failed at IntValue (INT_VALUE = "z"): StringValue, before
\* it, holds the default written by the call, and IntSliceValue, after it, is
\* still nil although its variable holds a text that converts
C3_Witness ==
    /\ call = Op("BindEnv", "ptr", 0)
    /\ ret.kind = "parse"
    /\ env["INT_VALUE"] = <<"z">>
    /\ config.StringValue = <<"d">>
    /\ config.IntValue = 0
    /\ env["INT_SLICE_VALUE"] = <<"1", ",", "0">>
    /\ config.IntSliceValue = <<>>

\* C4: BindEnvWithAutoRefresh binds once and starts a background task exactly
\* when that Bind succeeds: on a failure it returns the Bind's error and the
\* tasks are as before; on success it returns no error and one task, for its
\* record, has been added; no other step adds a task, and a task never ends.
C4_TaskIffSuccess ==
    [][/\ call'.op = "BindEnvWithAutoRefresh" =>
             IF call'.target = "ptr" /\ FirstFailing(env) = 0
             THEN /\ ret' = NoError
                  /\ Len(tasks') = Len(tasks) + 1
                  /\ tasks'[Len(tasks')].v = call'.target
                  /\ tasks'[Len(tasks')].pc = "sleep"
             ELSE /\ ret'.kind = (IF call'.target = "ptr" THEN "parse" ELSE "invalid")
                  /\ Len(tasks') = Len(tasks)
       /\ call'.op # "BindEnvWithAutoRefresh" => Len(tasks') = Len(tasks)
       /\ \A i \in 1..Len(tasks) :
             /\ i <= Len(tasks')
             /\ tasks'[i].v = tasks[i].v
             /\ tasks'[i].pc \in {"sleep", "bind"}]_vars

\* BindEnvWithAutoRefresh(&config) has just succeeded and its task sleeps
C4_Witness ==
    /\ call = Op("BindEnvWithAutoRefresh", "ptr", 0)
    /\ ret = NoError
    /\ Len(tasks) = 1
    /\ tasks[1].pc = "sleep"
    /\ env["INT_VALUE"] = <<"1">>
    /\ config.IntValue = 1

----------------------------------------------------------------------------
\* leaf k is out of date: its variable holds a text that converts, Bind gets
\* as far as the field, and the field does not hold the parsed text
Stale(k) ==
    /\ env[Leaves[k].env] # <<>>
    /\ Converts(Leaves[k].type, env[Leaves[k].env])
    /\ \A j \in 1..(k - 1) : ~Fails(env, j)
    /\ FieldAt(config, Leaves[k].path) # Parsed(Leaves[k].type, env[Leaves[k].env])

\* C5 as stated: once BindEnvWithAutoRefresh has succeeded on the record,
\* whenever the variable of an annotated field holds a text that converts, the
\* field comes to hold the parsed text unless that variable is changed again.
C5_AsStated ==
    \A k \in 1..Len(Leaves) :
        \A text \in EnvTexts \ {<<>>} :
            (/\ Len(tasks) > 0
             /\ env[Leaves[k].env] = text
             /\ Converts(Leaves[k].type, text))
                ~> (\/ FieldAt(config, Leaves[k].path) = Parsed(Leaves[k].type, text)
                    \/ env[Leaves[k].env] # text)

\* C5, amended: once BindEnvWithAutoRefresh has succeeded on the record,
\* whenever the variable of an annotated field holds a text that converts and
\* no annotated field before it in declaration order has a text that fails to
\* convert, the field comes to hold the parsed text, with no call by the
\* caller, unless first that variable is changed again or a field before it
\* is given a text that fails to convert.
C5_RefreshPicksUpChange ==
    \A k \in 1..Len(Leaves) :
        \A text \in EnvTexts \ {<<>>} :
            (Len(tasks) > 0 /\ Stale(k) /\ env[Leaves[k].env] = text)
                ~> (\/ FieldAt(config, Leaves[k].path) = Parsed(Leaves[k].type, text)
                    \/ env[Leaves[k].env] # text
                    \/ \E j \in 1..(k - 1) : Fails(env, j))

\* a refresh has just run and BoolSliceValue holds the text its variable was
\* given after an earlier refresh had failed on it
C5_Witness ==
    /\ call = Op("Tick", "ptr", 1)
    /\ Len(tasks) = 1
    /\ sink.target = "bool"
    /\ env["BOOL_SLICE_VALUE"] = <<"1", ",", "0">>
    /\ config.BoolSliceValue = <<TRUE, FALSE>>

----------------------------------------------------------------------------
\* C6: a refresh whose Bind fails prints the error and does nothing else with
\* it: what the caller was last returned is as before, the goroutine stays and
\* sleeps for its interval again, and the fields before the failing one hold
\* what the refresh wrote.  The goroutine comes back to its next Bind, and
\* once no text fails to convert the record comes to hold every converted text.
C6_RefreshFailureOnlyReported ==
    /\ [][(call'.op = "Tick" /\ FirstFailing(env) # 0)
             => /\ sink'.kind = "parse"
                /\ ret' = ret
                /\ Len(tasks') = Len(tasks)
                /\ tasks'[call'.task].pc = "sleep"
                /\ tasks'[call'.task].wait = tasks[call'.task].interval
                /\ \A k \in 1..(FirstFailing(env) - 1) :
                      Resolved(env, Leaves[k]) # <<>>
                        => FieldAt(config', Leaves[k].path)
                             = Parsed(Leaves[k].type, Resolved(env, Leaves[k]))]_vars
    /\ \A i \in 1..MaxTasks :
          (call = Op("Tick", "ptr", i) /\ FirstFailing(env) # 0) ~> Binding(i)
    /\ (Len(tasks) > 0 /\ sink # NoError /\ FirstFailing(env) = 0)
          ~> (FirstFailing(env) # 0 \/ \A k \in 1..Len(Leaves) : ~Stale(k))

\* a refresh has just failed at IntValue (INT_VALUE = "z"): the error is in
\* the sink, the caller still has the nil error of its own call, the goroutine
\* sleeps again, and StringValue holds the text the refresh wrote
C6_Witness ==
    /\ call = Op("Tick", "ptr", 1)
    /\ sink.kind = "parse" /\ sink.target = "int"
    /\ ret = NoError
    /\ tasks[1].pc = "sleep"
    /\ env["INT_VALUE"] = <<"z">>
    /\ env["STRING_VALUE"] = <<"z">>
    /\ config.StringValue = <<"z">>

----------------------------------------------------------------------------
\* C7: BindEnv is idempotent: after a BindEnv of the record, another one in
\* the same environment leaves every field as it is and returns the same
\* outcome, nil or the same error.
C7_Idempotent ==
    (call.op = "BindEnv" /\ call.target = "ptr")
        => BindEnv(env, PointerTo(ConfigType, config)) = [val |-> config, err |-> ret]

\* a BindEnv(&config) that wrote IntSliceValue and then failed at the last field
C7_Witness ==
    /\ call = Op("BindEnv", "ptr", 0)
    /\ ret.kind = "parse"
    /\ env["INT_SLICE_VALUE"] = <<"1", ",", "0">>
    /\ config.IntSliceValue = <<1, 0>>
    /\ env["BOOL_SLICE_VALUE"] = <<"z">>

\* the annotated fields inside nested records
Nested == {k \in 1..Len(Leaves) : Len(Leaves[k].path) > 1}

\* C8: a writable field that is a nested record is bound whether or not it
\* carries an annotation (SubStruct carries none): after a successful Bind
\* the annotated fields inside it hold their parsed texts, and when a text
\* inside it fails to convert the outer Bind returns the error, wrapped, and
\* the fields after the nested record are as before the call.
C8_NestedRecords ==
    [][CallerBound =>
          /\ FirstFailing(env) = 0 =>
                /\ ret' = NoError
                /\ \A k \in Nested :
                      Resolved(env, Leaves[k]) # <<>>
                        => FieldAt(config', Leaves[k].path)
                             = Parsed(Leaves[k].type, Resolved(env, Leaves[k]))
          /\ FirstFailing(env) \in Nested =>
                /\ ret'.kind = "parse"
                /\ Len(ret'.wrap) = Len(Leaves[FirstFailing(env)].path) - 1
                /\ \A k \in 1..Len(Leaves) :
                      k > FirstFailing(env)
                        => FieldAt(config', Leaves[k].path) = FieldAt(config, Leaves[k].path)]_vars

\* BindEnv(&config) failed inside SubStruct (SUB_FLOAT_VALUE = "z"): the error
\* is wrapped once and BoolSliceValue, after SubStruct, was not bound
C8_Witness ==
    /\ call = Op("BindEnv", "ptr", 0)
    /\ ret.kind = "parse" /\ ret.target = "float64" /\ Len(ret.wrap) = 1
    /\ env["SUB_FLOAT_VALUE"] = <<"z">>
    /\ env["BOOL_SLICE_VALUE"] = <<"1">>
    /\ config.BoolSliceValue = <<>>

RECURSIVE JoinComma(_)
\* the pieces with a comma between each two
JoinComma(pieces) ==
    IF Len(pieces) = 1 THEN pieces[1]
    ELSE pieces[1] \o <<",">> \o JoinComma(Tail(pieces))

SliceLeaves == {k \in 1..Len(Leaves) : Leaves[k].type.kind = "slice"}

\* C9: a sequence field that a Bind reaches with a text is filled from the
\* pieces between the commas, in order.  A sequence of text gets every piece,
\* the empty one after a trailing comma too, and does not fail; a sequence of
\* integers or booleans gets the converted pieces when all convert, and when
\* one does not (the empty piece after a trailing comma is one) the Bind
\* returns a conversion error and the field is as before the call.
C9_Sequences ==
    [][CallerBound =>
          \A k \in SliceLeaves :
             LET leaf  == Leaves[k]
                 text  == Resolved(env, leaf)
                 after == FieldAt(config', leaf.path)
             IN  (Reached(env, k) /\ text # <<>>) =>
                    IF leaf.type.elem.kind = "string"
                    THEN /\ FirstFailing(env) # k
                         /\ Len(after) >= 1
                         /\ JoinComma(after) = text
                         /\ \A i \in 1..Len(after) : \A j \in 1..Len(after[i]) : after[i][j] # ","
                         /\ text[Len(text)] = "," => after[Len(after)] = <<>>
                    ELSE IF \/ text[Len(text)] = ","
                            \/ \E i \in 1..Len(Split(text, ",")) :
                                  ~ScalarOk(leaf.type.elem.kind, Split(text, ",")[i])
                    THEN /\ FirstFailing(env) = k
                         /\ ret'.kind = "parse"
                         /\ ret'.target = leaf.type.elem.kind
                         /\ after = FieldAt(config, leaf.path)
                    ELSE /\ Len(after) = Len(Split(text, ","))
                         /\ \A i \in 1..Len(after) :
                               after[i] = ScalarValue(leaf.type.elem.kind, Split(text, ",")[i])]_vars

\* BindEnv(&config) with a trailing comma in two variables: StringSliceValue
\* ends with the empty text, and the Bind failed on the empty piece of
\* BoolSliceValue, which is still nil (not the converted first piece)
C9_Witness ==
    /\ call = Op("BindEnv", "ptr", 0)
    /\ env["STRING_SLICE_VALUE"] = <<"0", ",">>
    /\ config.StringSliceValue = << <<"0">>, <<>> >>
    /\ env["BOOL_SLICE_VALUE"] = <<"0", ",">>
    /\ ret.kind = "parse" /\ ret.target = "bool" /\ ret.text = <<>>
    /\ config.BoolSliceValue = <<>>

\* C10: the conversion error a Bind returns names the field that failed, the
\* offending text and the target kind, for scalar and sequence fields and for
\* fields inside a nested record.
C10_ErrorNamesField ==
    [][(CallerBound /\ FirstFailing(env) # 0) =>
          LET leaf == Leaves[FirstFailing(env)]
              text == Resolved(env, leaf)
          IN  /\ ret'.kind = "parse"
              /\ ret'.field = leaf.name
              /\ \E i \in 1..Len(Pieces(leaf.type, text)) :
                    /\ ret'.text = Pieces(leaf.type, text)[i]
                    /\ ~ScalarOk(ElemKind(leaf.type), ret'.text)
              /\ ret'.target = ElemKind(leaf.type)]_vars

----------------------------------------------------------------------------
\* goroutine i comes back from its call of BindEnv and begins the wait before
\* its next tick
BeginsWait(i) == tasks[i].pc = "bind" /\ tasks'[i].pc = "sleep"

\* C11, as the claim states it: the interval is read at every tick, so the
\* wait before a cycle's next tick is what AUTO_REFRESH_INTERVAL holds when
\* the wait begins, also after the caller changed it.
C11_AsStated ==
    [][\A i \in 1..Len(tasks) :
          BeginsWait(i) => tasks'[i].wait = AUTO_REFRESH_INTERVAL]_vars

\* C11, amended: the interval is read once for each refresh cycle, when
\* BindEnvWithAutoRefresh starts it: the cycle's first wait is what
\* AUTO_REFRESH_INTERVAL holds at that call, and every later wait of the
\* cycle is that same value, whatever the caller has set the variable to
\* since.
C11_IntervalReadAtStart ==
    [][/\ Len(tasks') > Len(tasks) =>
             /\ Len(tasks') = Len(tasks) + 1
             /\ tasks'[Len(tasks')].wait = AUTO_REFRESH_INTERVAL
             /\ tasks'[Len(tasks')].interval = AUTO_REFRESH_INTERVAL
       /\ \A i \in 1..Len(tasks) :
             /\ tasks'[i].interval = tasks[i].interval
             /\ BeginsWait(i) => tasks'[i].wait = tasks[i].interval]_vars

\* a tick of a cycle started with the interval at 60 has just begun its next
\* wait, after the caller set AUTO_REFRESH_INTERVAL to 1: the wait is 60
C11_Witness ==
    /\ call.op = "Tick"
    /\ Len(tasks) >= 1
    /\ tasks[call.task].pc = "sleep"
    /\ AUTO_REFRESH_INTERVAL = 1
    /\ tasks[call.task].wait = DefaultInterval

\* goroutine i starts a call of BindEnv
StartsBind(i) == tasks'[i].running > tasks[i].running

\* C12: the ticks of one refresh loop are strictly sequential: a goroutine
\* never has two calls of BindEnv in progress, and it starts one only when
\* its previous one has returned and its whole interval has passed since.
C12_TicksSequential ==
    /\ [](\A i \in 1..Len(tasks) : tasks[i].running \in {0, 1})
    /\ [][\A i \in 1..Len(tasks) :
             StartsBind(i) =>
                /\ tasks[i].running = 0
                /\ tasks[i].slept >= tasks[i].interval
                /\ tasks[i].interval >= 1]_vars

\* a goroutine is in its second call of BindEnv or a later one: the caller's
\* own call has returned, the goroutine's previous tick has failed and
\* printed its error, and this call started a whole interval after that
C12_Witness ==
    /\ call.op = "TimerFire"
    /\ tasks[call.task].running = 1
    /\ tasks[call.task].slept = tasks[call.task].interval
    /\ sink # NoError

====
